---- MODULE Spec2Model ----
(***************************************************************************)
(* Shape-level model of pldm/models/encoders/resnet.py.                    *)
(*                                                                         *)
(* A behaviour is one call of a constructor function (or of ResNet         *)
(* itself), stepping through ResNet.__init__, followed by one call of      *)
(* ResNet.forward on an input batch.  Modules are records of the arguments *)
(* they were built with, tensors are their shapes <<B, C, H, W>>.          *)
(***************************************************************************)
EXTENDS Integers, Sequences, FiniteSets, TLC

VARIABLES
    ctor,          \* name of the function that is called
    kwargs,        \* keyword arguments of the call
    cfg,           \* arguments ResNet.__init__ runs with (after defaults)
    pc,            \* position in the call
    inplanes,      \* self.inplanes
    dilation,      \* self.dilation
    rswd,          \* local replace_stride_with_dilation after line 227
    num_out_filters, \* local num_out_filters
    net,           \* the modules assigned to self so far
    err,           \* exception that ended the call: [type, at]
    result,        \* what the constructor function returned
    input,         \* shape of the batch forward was called with
    x,             \* the tensor flowing through forward (its shape)
    adds           \* operand shapes of the residual additions executed

vars == <<ctor, kwargs, cfg, pc, inplanes, dilation, rswd, num_out_filters,
          net, err, result, input, x, adds>>

\* ------------------------------------------------------------------ bounds
MaxBlocks == 2     \* blocks per layer of a directly constructed ResNet
MaxStride == 2     \* largest stride of a stride schedule
MaxSize == 8       \* largest input height / width
BatchSize == 2     \* batch size of the input

\* ------------------------------------------------------- optional values
None == <<>>
Some(v) == <<v>>
IsNone(o) == Len(o) = 0
Val(o) == o[1]

NoErr == [type |-> "none", at |-> "none"]
Raise(t, a) == [type |-> t, at |-> a]

Min(a, b) == IF a < b THEN a ELSE b

\* ---------------------------------------------------------------- modules
\* nn.Conv2d(in, out, kernel_size, stride, padding, groups, dilation)
Conv2d(cin, cout, k, s, p, g, d) ==
    [in |-> cin, out |-> cout, k |-> k, stride |-> s, padding |-> p,
     groups |-> g, dilation |-> d]

conv3x3(in_planes, out_planes, stride, groups, dil) ==
    Conv2d(in_planes, out_planes, 3, stride, dil, groups, dil)

conv1x1(in_planes, out_planes, stride) ==
    Conv2d(in_planes, out_planes, 1, stride, 0, 1, 1)

\* norm_layer(num_groups, num_channels)
Norm(g, c) == [num_groups |-> g, num_channels |-> c]

expansion(block) == IF block = "Bottleneck" THEN 4 ELSE 1

\* ------------------------------------------------------ block constructors
\* BasicBlockID.__init__: super(BasicBlock, self) on an object that is no
\* BasicBlock raises TypeError before anything else runs.
BasicBlockID_init(inpl, planes, stride, downsample, groups, base_width, dil, last_activation) ==
    [err |-> Raise("TypeError", "BasicBlockID.__init__:49"), blk |-> None]

\* mutant: the guard asks for both conditions instead of either
BasicBlock_init_BothGuard(inpl, planes, stride, downsample, groups, base_width, dil, last_activation) ==
    IF groups # 1 /\ base_width # 64
    THEN [err |-> Raise("ValueError", "BasicBlock.__init__:93"), blk |-> None]
    ELSE IF dil > 1
    THEN [err |-> Raise("NotImplementedError", "BasicBlock.__init__:95"),
          blk |-> None]
    ELSE [err |-> NoErr,
          blk |-> Some([kind |-> "BasicBlock",
                        conv1 |-> conv3x3(inpl, planes, stride, 1, 1),
                        bn1 |-> Norm(Min(32, planes \div 4), planes),
                        conv2 |-> conv3x3(planes, planes, 1, 1, 1),
                        bn2 |-> Norm(Min(32, planes \div 4), planes),
                        downsample |-> downsample,
                        stride |-> stride])]

BasicBlock_init(inpl, planes, stride, downsample, groups, base_width, dil, last_activation) ==
    IF groups # 1 \/ base_width # 64
    THEN [err |-> Raise("ValueError", "BasicBlock.__init__:93"), blk |-> None]
    ELSE IF dil > 1
    THEN [err |-> Raise("NotImplementedError", "BasicBlock.__init__:95"),
          blk |-> None]
    ELSE [err |-> NoErr,
          blk |-> Some([kind |-> "BasicBlock",
                        conv1 |-> conv3x3(inpl, planes, stride, 1, 1),
                        bn1 |-> Norm(Min(32, planes \div 4), planes),
                        conv2 |-> conv3x3(planes, planes, 1, 1, 1),
                        bn2 |-> Norm(Min(32, planes \div 4), planes),
                        downsample |-> downsample,
                        stride |-> stride])]

\* int(planes * (base_width / 64.0)) * groups
BottleneckWidth(planes, base_width, groups) ==
    ((planes * base_width) \div 64) * groups

Bottleneck_init(inpl, planes, stride, downsample, groups, base_width, dil, last_activation) ==
    LET width == BottleneckWidth(planes, base_width, groups)
        out == planes * 4
    IN [err |-> NoErr,
        blk |-> Some([kind |-> "Bottleneck",
                      conv1 |-> conv1x1(inpl, width, 1),
                      bn1 |-> Norm(Min(32, width \div 4), width),
                      conv2 |-> conv3x3(width, width, stride, groups, dil),
                      bn2 |-> Norm(Min(32, width \div 4), width),
                      conv3 |-> conv1x1(width, out, 1),
                      bn3 |-> Norm(Min(32, out \div 4), out),
                      downsample |-> downsample,
                      stride |-> stride,
                      last_activation |-> last_activation])]

\* block(...): the call of the block class
BlockInit(block, inpl, planes, stride, downsample, groups, base_width, dil, last_activation) ==
    CASE block = "BasicBlock" ->
           BasicBlock_init(inpl, planes, stride, downsample, groups,
                           base_width, dil, last_activation)
      [] block = "Bottleneck" ->
           Bottleneck_init(inpl, planes, stride, downsample, groups,
                           base_width, dil, last_activation)
      [] block = "BasicBlockID" ->
           BasicBlockID_init(inpl, planes, stride, downsample, groups,
                             base_width, dil, last_activation)

\* ------------------------------------------------------ ResNet._make_layer
\* mutant: the downsample is built for a strided layer only
NeedsDownsample_StrideOnly(stride, inpl, planes, block) == stride # 1

\* line 335: the condition under which the first block gets a downsample
NeedsDownsample(stride, inpl, planes, block) ==
    stride # 1 \/ inpl # planes * expansion(block)

\* the channel count the layer leaves in self.inplanes (line 357)
LayerOutPlanes(planes, block) == planes * expansion(block)

\* Returns the layer (a sequence of blocks) or the exception raised, with
\* the values self.inplanes and self.dilation hold when it ends.
make_layer(selfInplanes, selfDilation, groups, base_width, block, planes, blocks, stride0, dilate, last_activation) ==
    LET previous_dilation == selfDilation
        dil == IF dilate THEN selfDilation * stride0 ELSE selfDilation
        stride == IF dilate THEN 1 ELSE stride0
        outp == planes * expansion(block)
        downsample ==
            IF NeedsDownsample(stride, selfInplanes, planes, block)
            THEN Some([conv |-> conv1x1(selfInplanes, outp, stride),
                       bn |-> Norm(Min(outp \div 4, 32), outp)])
            ELSE None
        first == BlockInit(block, selfInplanes, planes, stride, downsample,
                           groups, base_width, previous_dilation,
                           IF blocks = 1 THEN last_activation ELSE "relu")
        inpl2 == LayerOutPlanes(planes, block)
        mid == BlockInit(block, inpl2, planes, 1, None, groups, base_width,
                         dil, "relu")
        last == BlockInit(block, inpl2, planes, 1, None, groups, base_width,
                          dil, last_activation)
    IN IF first.err # NoErr
       THEN [err |-> first.err, layer |-> <<>>,
             inplanes |-> selfInplanes, dilation |-> dil]
       ELSE IF blocks > 1 /\ mid.err # NoErr
       THEN [err |-> mid.err, layer |-> <<>>,
             inplanes |-> inpl2, dilation |-> dil]
       ELSE [err |-> NoErr,
             layer |-> [i \in 1..(IF blocks > 1 THEN blocks ELSE 1) |->
                          IF i = 1 THEN Val(first.blk)
                          ELSE IF i = blocks THEN Val(last.blk)
                          ELSE Val(mid.blk)],
             inplanes |-> inpl2, dilation |-> dil]

\* ---------------------------------------------------------------- forward
\* A forward value: the shape of the tensor, the exception raised (if any)
\* and the operand shapes of the residual additions executed so far.
Tensor(shape, a) == [err |-> NoErr, x |-> shape, adds |-> a]
Fail(t, at) == [t EXCEPT !.err = Raise("RuntimeError", at)]

ConvOutSize(n, conv) ==
    (n + 2 * conv.padding - (conv.dilation * (conv.k - 1) + 1))
        \div conv.stride + 1

\* nn.Conv2d.forward: the input must carry conv.in channels and be at
\* least as large as the (dilated) kernel once padded.
Conv2dForward(conv, t) ==
    IF t.err # NoErr THEN t
    ELSE LET s == t.x
             eff == conv.dilation * (conv.k - 1) + 1
         IN IF s[2] # conv.in THEN Fail(t, "Conv2d:channels")
            ELSE IF s[3] + 2 * conv.padding < eff
                    \/ s[4] + 2 * conv.padding < eff
            THEN Fail(t, "Conv2d:size")
            ELSE [t EXCEPT !.x = <<s[1], conv.out, ConvOutSize(s[3], conv),
                                   ConvOutSize(s[4], conv)>>]

\* norm_layer.forward: keeps the shape, the input must carry num_channels
NormForward(bn, t) ==
    IF t.err # NoErr THEN t
    ELSE IF t.x[2] # bn.num_channels THEN Fail(t, "Norm:channels")
    ELSE t

\* out += identity: identity must broadcast to the shape of out
Broadcasts(id, out) ==
    \A i \in 1..4 : id[i] = out[i] \/ id[i] = 1

AddForward(out, identity) ==
    LET t == [out EXCEPT !.adds = @ \cup {[main |-> out.x,
                                          identity |-> identity]}]
    IN IF Broadcasts(identity, out.x) THEN t ELSE Fail(t, "add:shape")

DownsampleForward(b, t) ==
    IF IsNone(b.downsample) THEN t
    ELSE NormForward(Val(b.downsample).bn,
                     Conv2dForward(Val(b.downsample).conv, t))

BasicBlock_forward(b, t) ==
    LET out == NormForward(b.bn2, Conv2dForward(b.conv2,
                 NormForward(b.bn1, Conv2dForward(b.conv1, t))))
        identity == DownsampleForward(b, t)
    IN IF out.err # NoErr THEN out
       ELSE IF identity.err # NoErr THEN identity
       ELSE AddForward(out, identity.x)

Bottleneck_forward(b, t) ==
    LET out == NormForward(b.bn3, Conv2dForward(b.conv3,
                 NormForward(b.bn2, Conv2dForward(b.conv2,
                   NormForward(b.bn1, Conv2dForward(b.conv1, t))))))
        identity == DownsampleForward(b, t)
    IN IF out.err # NoErr THEN out
       ELSE IF identity.err # NoErr THEN identity
       ELSE AddForward(out, identity.x)

BlockForward(b, t) ==
    IF t.err # NoErr THEN t
    ELSE IF b.kind = "Bottleneck" THEN Bottleneck_forward(b, t)
    ELSE BasicBlock_forward(b, t)

\* nn.Sequential.forward over the blocks of a layer, from block i on
RECURSIVE SequentialForward(_, _, _)
SequentialForward(layer, i, t) ==
    IF i > Len(layer) THEN t
    ELSE SequentialForward(layer, i + 1, BlockForward(layer[i], t))

\* ---------------------------------------------------- constructor functions
Ctors == {"resnet18s_a", "resnet18s_b", "resnet18s_c", "resnet18s_d",
          "resnet18s_e", "resnet18s_f", "resnet18s_g", "resnet18",
          "resnet18ID", "resnet34", "resnet50", "resnet101", "resnet50x2",
          "resnet50x4", "resnet50x5", "resnet200x2", "ResNet"}

\* defaults of ResNet.__init__ (lines 194-208)
Defaults ==
    [num_channels |-> 3, zero_init_residual |-> FALSE, groups |-> 1,
     widen |-> 1, width_per_group |-> 64,
     replace_stride_with_dilation |-> None, last_activation |-> "relu",
     inital_maxpool |-> TRUE, final_pool_type |-> "avg_pool",
     final_out_filters |-> 32, spatial_output |-> FALSE,
     expand_factor |-> 2, initial_padding |-> TRUE]

Required == {"block", "layers", "filters", "strides"}

Small(expand, pool) ==
    [block |-> "BasicBlock", layers |-> <<2, 2>>, inital_maxpool |-> FALSE,
     spatial_output |-> TRUE, initial_padding |-> FALSE,
     expand_factor |-> expand, final_pool_type |-> pool]

\* the arguments each constructor function passes to ResNet itself
Fixed(c) ==
    CASE c = "resnet18s_a" -> Small(1, "id")
      [] c = "resnet18s_b" -> Small(1, "1x1_pool") @@ [final_out_filters |-> 32]
      [] c = "resnet18s_c" -> Small(1, "1x1_pool") @@ [final_out_filters |-> 48]
      [] c = "resnet18s_d" -> Small(2, "1x1_pool") @@ [final_out_filters |-> 64]
      [] c = "resnet18s_e" -> Small(2, "1x1_pool") @@ [final_out_filters |-> 48]
      [] c = "resnet18s_f" -> Small(2, "1x1_pool") @@ [final_out_filters |-> 32]
      [] c = "resnet18s_g" ->
           [block |-> "BasicBlock", layers |-> <<2, 2, 2, 2>>,
            filters |-> <<64, 128, 128, 128>>, strides |-> <<1, 2, 1, 1>>,
            num_channels |-> 6, zero_init_residual |-> TRUE, groups |-> 1,
            widen |-> 1, width_per_group |-> 64,
            replace_stride_with_dilation |-> None,
            last_activation |-> "relu", inital_maxpool |-> FALSE,
            final_pool_type |-> "1x1_pool", final_out_filters |-> 64,
            spatial_output |-> TRUE, expand_factor |-> 2,
            initial_padding |-> TRUE]
      [] c = "resnet18" ->
           [block |-> "BasicBlock", layers |-> <<2, 2, 2, 2>>,
            filters |-> <<64, 128, 256, 512>>, strides |-> <<1, 2, 2, 2>>]
      [] c = "resnet18ID" ->
           [block |-> "BasicBlockID", layers |-> <<2, 2, 2, 2>>]
      [] c = "resnet34" ->
           [block |-> "BasicBlock", layers |-> <<3, 4, 6, 3>>]
      [] c = "resnet50" ->
           [block |-> "Bottleneck", layers |-> <<3, 4, 6, 3>>]
      [] c = "resnet101" ->
           [block |-> "Bottleneck", layers |-> <<3, 4, 23, 3>>]
      [] c = "resnet50x2" ->
           [block |-> "Bottleneck", layers |-> <<3, 4, 6, 3>>, widen |-> 2]
      [] c = "resnet50x4" ->
           [block |-> "Bottleneck", layers |-> <<3, 4, 6, 3>>, widen |-> 4]
      [] c = "resnet50x5" ->
           [block |-> "Bottleneck", layers |-> <<3, 4, 6, 3>>, widen |-> 5]
      [] c = "resnet200x2" ->
           [block |-> "Bottleneck", layers |-> <<3, 24, 36, 3>>, widen |-> 2]
      [] c = "ResNet" -> <<>>

\* the companion value returned next to the network
Count(c) ==
    CASE c \in {"resnet18", "resnet18ID", "resnet34"} -> Some(512)
      [] c \in {"resnet50", "resnet101"} -> Some(2048)
      [] c \in {"resnet50x2", "resnet200x2"} -> Some(4096)
      [] c = "resnet50x4" -> Some(8192)
      [] c = "resnet50x5" -> Some(10240)
      [] OTHER -> None

\* resnet18s_g takes **kwargs and never passes them on
Passed(c, kw) == IF c = "resnet18s_g" THEN <<>> ELSE kw

\* Python rejects the call (TypeError) when a keyword is given twice or a
\* parameter without default is missing.
CallRaises(c, kw) ==
    \/ DOMAIN Passed(c, kw) \cap DOMAIN Fixed(c) # {}
    \/ Required \ (DOMAIN Passed(c, kw) \cup DOMAIN Fixed(c)) # {}

Args(c, kw) == Passed(c, kw) @@ Fixed(c) @@ Defaults

\* ------------------------------------------------------------ initial calls
\* filters lists are prefixes of these
FilterPool ==
    {<<64, 128, 256, 512>>, <<64, 128, 128, 128>>, <<16, 16, 32, 32>>,
     <<128, 256, 512, 1024>>, <<256, 512, 1024, 2048>>,
     <<320, 640, 1280, 2560>>}

FilterLists(L) == {SubSeq(f, 1, L) : f \in FilterPool}

\* stride schedules: one strided layer, or the same stride everywhere
StrideLists(L) ==
    {[i \in 1..L |-> IF i = j THEN s ELSE 1] : j \in 1..L, s \in 1..MaxStride}
        \cup {[i \in 1..L |-> s] : s \in 1..MaxStride}

LayerLists(L) == {[i \in 1..L |-> n] : n \in 1..MaxBlocks}

\* keyword arguments that override one group of defaults
Options ==
    {<<>>,
     [groups |-> 2], [width_per_group |-> 128], [widen |-> 2],
     [replace_stride_with_dilation |-> Some(<<FALSE, FALSE, FALSE>>)],
     [replace_stride_with_dilation |-> Some(<<TRUE, FALSE, TRUE>>)],
     [replace_stride_with_dilation |-> Some(<<TRUE, TRUE>>)],
     [replace_stride_with_dilation |->
         Some(<<FALSE, FALSE, FALSE, FALSE>>)],
     [final_pool_type |-> "1x1_pool"],
     [final_pool_type |-> "id"],
     [spatial_output |-> TRUE],
     [inital_maxpool |-> FALSE],
     [initial_padding |-> FALSE]}

CoreKwargs(c) ==
    IF c = "ResNet"
    THEN UNION {{[block |-> b, layers |-> l, filters |-> f, strides |-> s] :
                   b \in {"BasicBlock", "Bottleneck", "BasicBlockID"},
                   l \in LayerLists(L), f \in FilterLists(L),
                   s \in StrideLists(L)} : L \in 1..4}
    ELSE IF "filters" \in DOMAIN Fixed(c) THEN {<<>>}
    ELSE {[filters |-> f, strides |-> s] :
            f \in FilterLists(Len(Fixed(c).layers)),
            s \in StrideLists(Len(Fixed(c).layers))}

\* the calls a behaviour may start with: the core arguments with one group
\* of options, and the call without any keyword argument
KwargsFor(c) ==
    IF c = "resnet18s_g" THEN {<<>>, [groups |-> 2]}
    ELSE {o @@ k : k \in CoreKwargs(c),
                   o \in {o \in Options : DOMAIN o \cap DOMAIN Fixed(c) = {}}}
         \cup {<<>>}

Sizes == {1, MaxSize \div 2, MaxSize}

NoNet ==
    [padding |-> None, conv1 |-> None, bn1 |-> None, maxpool |-> None,
     layer1 |-> None, layer2 |-> None, layer3 |-> None, layer4 |-> None,
     final_pool |-> None]

Init ==
    /\ ctor \in Ctors
    /\ kwargs \in KwargsFor(ctor)
    /\ cfg = <<>>
    /\ pc = "call"
    /\ inplanes = 0
    /\ dilation = 0
    /\ rswd = None
    /\ num_out_filters = 0
    /\ net = NoNet
    /\ err = NoErr
    /\ result = None
    /\ input = None
    /\ x = None
    /\ adds = {}

\* ------------------------------------------------------------------ actions
\* the constructor function calls ResNet(...): the arguments are bound
Call ==
    /\ pc = "call"
    /\ IF CallRaises(ctor, kwargs)
       THEN /\ err' = Raise("TypeError", "call")
            /\ pc' = "raised"
            /\ cfg' = cfg
       ELSE /\ cfg' = Args(ctor, kwargs)
            /\ pc' = "init"
            /\ err' = err
    /\ UNCHANGED <<ctor, kwargs, inplanes, dilation, rswd, num_out_filters,
                   net, result, input, x, adds>>

\* mutant: only lists that are too long are rejected
DilationArgRejected_TooLong(r) == Len(r) > 3

\* line 228: the guard on replace_stride_with_dilation
DilationArgRejected(r) == Len(r) # 3

\* ResNet.__init__, lines 210-234
InitHead ==
    /\ pc = "init"
    /\ net' = [net EXCEPT !.padding = Some(cfg.initial_padding)]
    /\ inplanes' = cfg.width_per_group * cfg.widen
    /\ dilation' = 1
    /\ rswd' = IF IsNone(cfg.replace_stride_with_dilation)
               THEN <<FALSE, FALSE, FALSE>>
               ELSE Val(cfg.replace_stride_with_dilation)
    /\ IF DilationArgRejected(rswd')
       THEN /\ err' = Raise("ValueError", "ResNet.__init__:229")
            /\ pc' = "raised"
       ELSE /\ err' = err
            /\ pc' = "stem"
    /\ UNCHANGED <<ctor, kwargs, cfg, num_out_filters, result, input, x,
                   adds>>

\* ResNet.__init__, lines 237-251
BuildStem ==
    /\ pc = "stem"
    /\ num_out_filters' = cfg.filters[1]
    /\ net' = [net EXCEPT
                 !.conv1 = Some(Conv2d(cfg.num_channels, cfg.filters[1], 7, 2,
                                       2, 1, 1)),
                 !.bn1 = Some(Norm(Min(32, cfg.filters[1] \div 4),
                                   cfg.filters[1])),
                 !.maxpool = Some(cfg.inital_maxpool)]
    /\ pc' = "layer1"
    /\ UNCHANGED <<ctor, kwargs, cfg, inplanes, dilation, rswd, err, result,
                   input, x, adds>>

LayerNo == [layer1 |-> 1, layer2 |-> 2, layer3 |-> 3, layer4 |-> 4]
AfterLayer == [layer1 |-> "layer2", layer2 |-> "layer3", layer3 |-> "layer4",
               layer4 |-> "final"]

\* lines 252, 256, 268, 280: whether layer k is built
LayerIsBuilt(k, layers) ==
    IF k = 4 THEN Len(layers) = 4 ELSE Len(layers) >= k

\* ResNet.__init__, lines 252-291: one layer per step
BuildLayer ==
    /\ pc \in DOMAIN LayerNo
    /\ LET k == LayerNo[pc]
       IN IF LayerIsBuilt(k, cfg.layers)
          THEN LET r == make_layer(inplanes, dilation, cfg.groups,
                                   cfg.width_per_group, cfg.block,
                                   cfg.filters[k], cfg.layers[k],
                                   cfg.strides[k],
                                   IF k = 1 THEN FALSE ELSE rswd[k - 1],
                                   IF k = 4 THEN cfg.last_activation
                                   ELSE "relu")
               IN /\ inplanes' = r.inplanes
                  /\ dilation' = r.dilation
                  /\ num_out_filters' = cfg.filters[k]
                  /\ IF r.err # NoErr
                     THEN /\ err' = r.err
                          /\ pc' = "raised"
                          /\ net' = net
                     ELSE /\ err' = err
                          /\ pc' = AfterLayer[pc]
                          /\ net' = [net EXCEPT ![pc] = Some(r.layer)]
          ELSE /\ pc' = AfterLayer[pc]
               /\ UNCHANGED <<inplanes, dilation, num_out_filters, net, err>>
    /\ UNCHANGED <<ctor, kwargs, cfg, rswd, result, input, x, adds>>

\* line 296: the convolution built for final_pool_type "1x1_pool"
FinalConv(nof, final_out_filters) == Conv2d(nof, final_out_filters, 1, 1, 0, 1, 1)

\* ResNet.__init__, lines 293-318
BuildFinalPool ==
    /\ pc = "final"
    /\ net' = [net EXCEPT !.final_pool =
                 CASE cfg.final_pool_type = "avg_pool" ->
                        Some([kind |-> "AdaptiveAvgPool2d"])
                   [] cfg.final_pool_type = "1x1_pool" ->
                        Some([kind |-> "Conv2d",
                              conv |-> FinalConv(num_out_filters,
                                                 cfg.final_out_filters)])
                   [] cfg.final_pool_type = "id" -> None]
    /\ pc' = "constructed"
    /\ UNCHANGED <<ctor, kwargs, cfg, inplanes, dilation, rswd,
                   num_out_filters, err, result, input, x, adds>>

\* the constructor function returns (network, count)
Return ==
    /\ pc = "constructed"
    /\ result' = Some([network |-> TRUE, count |-> Count(ctor)])
    /\ pc' = "returned"
    /\ UNCHANGED <<ctor, kwargs, cfg, inplanes, dilation, rswd,
                   num_out_filters, net, err, input, x, adds>>

\* --------------------------------------------------------- ResNet.forward
InputShapes(channels) ==
    {<<BatchSize, channels, h, MaxSize>> : h \in Sizes}

\* nn.ConstantPad2d(1, 0.0)
PadForward(t) == [t EXCEPT !.x = <<@[1], @[2], @[3] + 2, @[4] + 2>>]

\* nn.MaxPool2d(kernel_size=3, stride=2, padding=1)
MaxPoolForward(t) ==
    IF t.err # NoErr THEN t
    ELSE [t EXCEPT !.x = <<@[1], @[2], (@[3] + 2 - 3) \div 2 + 1,
                           (@[4] + 2 - 3) \div 2 + 1>>]

\* lines 374-382
StemForward(n, shape) ==
    LET t0 == Tensor(shape, {})
        t1 == IF Val(n.padding) THEN PadForward(t0) ELSE t0
        t2 == NormForward(Val(n.bn1), Conv2dForward(Val(n.conv1), t1))
    IN IF Val(n.maxpool) THEN MaxPoolForward(t2) ELSE t2

\* lines 395-399
FinalForward(n, spatial_output, t) ==
    LET p == IF IsNone(n.final_pool) THEN t
             ELSE IF Val(n.final_pool).kind = "AdaptiveAvgPool2d"
             THEN [t EXCEPT !.x = <<@[1], @[2], 1, 1>>]
             ELSE Conv2dForward(Val(n.final_pool).conv, t)
    IN IF p.err # NoErr \/ spatial_output THEN p
       ELSE [p EXCEPT !.x = <<@[1], @[2] * @[3] * @[4]>>]

FwdLayerNo == [fwd_layer1 |-> 1, fwd_layer2 |-> 2, fwd_layer3 |-> 3,
               fwd_layer4 |-> 4]
FwdLayerName == <<"layer1", "layer2", "layer3", "layer4">>
AfterFwdLayer == [fwd_layer1 |-> "fwd_layer2", fwd_layer2 |-> "fwd_layer3",
                  fwd_layer3 |-> "fwd_layer4", fwd_layer4 |-> "fwd_final"]

Step(t, next) ==
    /\ x' = t.x
    /\ adds' = t.adds
    /\ err' = t.err
    /\ pc' = IF t.err # NoErr THEN "fwd_raised" ELSE next

\* forward is called on the returned network; lines 374-382
ForwardStem ==
    /\ pc = "returned"
    /\ \E shape \in InputShapes(cfg.num_channels) :
          /\ input' = Some(shape)
          /\ Step(StemForward(net, shape), "fwd_layer1")
    /\ UNCHANGED <<ctor, kwargs, cfg, inplanes, dilation, rswd,
                   num_out_filters, net, result>>

\* lines 384-393: one layer per step
ForwardLayer ==
    /\ pc \in DOMAIN FwdLayerNo
    /\ LET layer == net[FwdLayerName[FwdLayerNo[pc]]]
       IN IF IsNone(layer)
          THEN /\ pc' = AfterFwdLayer[pc]
               /\ UNCHANGED <<x, adds, err>>
          ELSE Step(SequentialForward(Val(layer), 1, Tensor(x, adds)),
                    AfterFwdLayer[pc])
    /\ UNCHANGED <<ctor, kwargs, cfg, inplanes, dilation, rswd,
                   num_out_filters, net, result, input>>

\* lines 395-402
ForwardFinal ==
    /\ pc = "fwd_final"
    /\ Step(FinalForward(net, cfg.spatial_output, Tensor(x, adds)), "done")
    /\ UNCHANGED <<ctor, kwargs, cfg, inplanes, dilation, rswd,
                   num_out_filters, net, result, input>>

Next ==
    \/ Call
    \/ InitHead
    \/ BuildStem
    \/ BuildLayer
    \/ BuildFinalPool
    \/ Return
    \/ ForwardStem
    \/ ForwardLayer
    \/ ForwardFinal

Spec == Init /\ [][Next]_vars

\* ------------------------------------------------------------------ claims
Bound == DOMAIN cfg # {}
Constructed == pc \in {"constructed", "returned", "fwd_layer1", "fwd_layer2",
                       "fwd_layer3", "fwd_layer4", "fwd_final", "fwd_raised",
                       "done"}
LayerOf(k) == net[FwdLayerName[k]]
BuiltLayers == {k \in 1..4 : ~IsNone(LayerOf(k))}
BlockIn(b) == b.conv1.in
BlockOut(b) == IF b.kind = "Bottleneck" THEN b.conv3.out ELSE b.conv2.out
LastBlock(k) == Val(LayerOf(k))[Len(Val(LayerOf(k)))]
LastBuilt == CHOOSE k \in BuiltLayers : \A j \in BuiltLayers : j <= k

\* C1: whenever a constructor that returns a count has built a network with
\* the default average pooling and a flat output, forward maps an input
\* (B, C, H, W) to an output (B, F) with F the returned count.
C1_OutputMatchesCount ==
    (/\ pc = "done"
     /\ ~IsNone(Val(result).count)
     /\ cfg.final_pool_type = "avg_pool"
     /\ ~cfg.spatial_output)
        => x = <<Val(input)[1], Val(Val(result).count)>>

\* C2: a constructor function called with filters and strides as long as
\* its layer list (where it does not fix them) and defaults otherwise never
\* ends in an exception.
C2_NoConstructorRaises ==
    (/\ ctor # "ResNet"
     /\ DOMAIN kwargs \subseteq {"filters", "strides"}
     /\ ~CallRaises(ctor, kwargs))
        => pc # "raised"

\* C3: a ResNet of BasicBlocks with groups # 1 or width_per_group # 64 is
\* never built: construction gets no further than layer1, ends in
\* ValueError and returns nothing; with groups = 1 and width_per_group = 64
\* the guard of BasicBlock never raises.
C3_BasicBlockGroupsRejected ==
    (Bound /\ cfg.block = "BasicBlock") =>
        IF cfg.groups # 1 \/ cfg.width_per_group # 64
        THEN /\ pc \in {"init", "stem", "layer1", "raised"}
             /\ pc = "raised" => err.type = "ValueError"
             /\ IsNone(result)
             /\ BuiltLayers = {}
        ELSE err.at # "BasicBlock.__init__:93"

C3_Witness ==
    /\ pc = "raised"
    /\ Bound
    /\ cfg.block = "BasicBlock"
    /\ cfg.groups = 2
    /\ Len(cfg.layers) = 4
    /\ err = Raise("ValueError", "BasicBlock.__init__:93")

\* C4: a replace_stride_with_dilation that is not None and has not exactly
\* 3 elements ends construction in ValueError before the stem or any layer
\* is built; None stands for [False, False, False]; a 3-element list never
\* trips the guard.
C4_DilationArgGuard ==
    (Bound /\ pc # "init") =>
        LET a == cfg.replace_stride_with_dilation
        IN IF ~IsNone(a) /\ Len(Val(a)) # 3
           THEN /\ pc = "raised"
                /\ err = Raise("ValueError", "ResNet.__init__:229")
                /\ IsNone(net.conv1) /\ IsNone(net.bn1)
                /\ BuiltLayers = {}
           ELSE /\ err.at # "ResNet.__init__:229"
                /\ IsNone(a) => rswd = <<FALSE, FALSE, FALSE>>
                /\ ~IsNone(a) => rswd = Val(a)

C4_Witness ==
    /\ pc = "raised"
    /\ Bound
    /\ ~IsNone(cfg.replace_stride_with_dilation)
    /\ Len(Val(cfg.replace_stride_with_dilation)) = 2
    /\ err.at = "ResNet.__init__:229"

\* C6: the first block of every layer has a downsample branch exactly when
\* its stride is not 1 or its input channel count differs from
\* planes * expansion, and the two operands of every residual addition
\* that forward executes have the same shape.
C6_ResidualShapesAgree ==
    /\ \A k \in BuiltLayers :
          LET b == Val(LayerOf(k))[1]
          IN ~IsNone(b.downsample) <=>
                (b.stride # 1 \/ BlockIn(b) # BlockOut(b))
    /\ \A a \in adds : a.main = a.identity

C6_Witness ==
    /\ pc = "done"
    /\ \E k \in BuiltLayers : IsNone(Val(LayerOf(k))[1].downsample)
    /\ \E k \in BuiltLayers :
          /\ ~IsNone(Val(LayerOf(k))[1].downsample)
          /\ Val(LayerOf(k))[1].stride = 2
    /\ \E a \in adds : a.main[3] > 1 /\ a.main[4] > a.main[3]
    /\ Cardinality(adds) >= 3

\* C7: in every constructed network the first block of layer1 is built for
\* the channel count the stem convolution outputs, and the first block of
\* each later layer for the channel count the previous layer outputs.
C7_StagesAgree ==
    Constructed =>
        /\ BlockIn(Val(net.layer1)[1]) = Val(net.conv1).out
        /\ \A k \in BuiltLayers \ {1} :
              BlockIn(Val(LayerOf(k))[1]) = BlockOut(LastBlock(k - 1))

\* C8: with final_pool_type "1x1_pool" the final convolution takes the
\* channel count the last constructed layer outputs and yields
\* final_out_filters channels.
C8_FinalConvChannels ==
    (Constructed /\ cfg.final_pool_type = "1x1_pool") =>
        /\ Val(net.final_pool).conv.in = BlockOut(LastBlock(LastBuilt))
        /\ Val(net.final_pool).conv.out = cfg.final_out_filters

====
